---- MODULE Spec2Model ----
(***************************************************************************)
(* Authentication session state machine of quickshell-polkit-agent         *)
(* (src/src/polkit-wrapper.cpp, class PolkitWrapper).                      *)
(*                                                                         *)
(* One action per slot, Listener override or backend callback.  Handlers   *)
(* are operators on a record `st' holding the wrapper's members and the    *)
(* heap objects it points to, so that a handler that calls another         *)
(* handler (a Qt direct connection is a synchronous call) is one step.     *)
(***************************************************************************)
EXTENDS Integers, Sequences, FiniteSets, TLC

\* ------------------------------------------------------------------------
\* Bounds of the model
\* ------------------------------------------------------------------------
MaxSessions == 2
NumCookies  == 2
Cookies     == 1..NumCookies
ActionIds   == {"org.a"}
Responses   == {"", "pw"}
\* clock steps, connection attempts and inbound burst of the IPC server
MaxTicks       == 1
MaxConnections == 2
\* messages put on the outbound queue after construction
MaxEnqueued    == 3
\* the rate limiter's ceiling (declared in the server's header, which is not
\* among the sources; the specification gives no value)
MAX_MESSAGES_PER_SECOND == 2

\* ------------------------------------------------------------------------
\* Program constants
\* ------------------------------------------------------------------------
MAX_AUTH_RETRIES == 3
SESSION_TIMEOUT_MS == 300000
MAX_QUEUED_MESSAGES == 50
MAX_TIME_SKEW_MS == 30000
\* the rate limiter's window (1000 ms in the specification; the declaration
\* is in the server's header, which is not among the sources)
RATE_LIMIT_WINDOW_MS == 1000
\* the heartbeat monitor's limit (declared in the same header; no value given)
CONNECTION_TIMEOUT_MS == 30000
\* QDateTime::currentMSecsSinceEpoch() when the process starts
StartTime == 1000000
\* how far the clock can move between two events
TickSteps == {600, CONNECTION_TIMEOUT_MS + 1, SESSION_TIMEOUT_MS + 1}

\* how far signMessage is applied to its own results
MaxHmacDepth == 2

\* how often, and by how much, the clock moves between signing and verifying
MaxSecTicks == 2
SecTickSteps == {MAX_TIME_SKEW_MS, 1, -1, -MAX_TIME_SKEW_MS}

\* The empty cookie of a signal that carries none
NoCookie == 0

\* A null pointer; objects created for the n-th initiateAuthentication call
\* (SessionState, PolkitQt1::Agent::Session, AsyncResult, QTimer) are named n.
NoObj == 0

States == {"IDLE", "INITIATED", "TRYING_FIDO", "FIDO_FAILED",
           "WAITING_FOR_PASSWORD", "AUTHENTICATING", "AUTHENTICATION_FAILED",
           "MAX_RETRIES_EXCEEDED", "COMPLETED", "CANCELLED", "ERROR"}
Methods == {"NONE", "FIDO", "PASSWORD"}
TerminalStates == {"COMPLETED", "CANCELLED", "ERROR", "MAX_RETRIES_EXCEEDED"}

\* What reading the erased map node after a re-entrant cleanup can do.
UBOutcomes == {"stale", "crash"}

VARIABLES
  m_sessions,          \* QMap<QString, SessionState>
  m_nfcReaderPresent,  \* bool, refreshed by every initiateAuthentication
  m_currentActionId,   \* QString, set by checkAuthorization
  pamSessions,         \* the backend conversations created so far
  fidoTimers,          \* the armed QTimers, each with the cookie its lambda captured
  asyncResults,        \* the AsyncResult objects handed in so far
  nextId,              \* the name of the next object to be created
  crashed,             \* the process died on undefined behaviour
  signals,             \* the Qt signals emitted by the last operation, in order
  backendCalls,        \* the setResponse calls made by the last operation
  lateCallbacks,       \* the backend callbacks the last operation delivered
                       \* inside a cleanup, each with the signals it emitted
  lastOp,              \* the last operation and the state it found
  fidoFailures,        \* per live SessionState, how often authenticationMethodFailed
                       \* was emitted for FIDO on its cookie (2 stands for `more')
  ipcServer,           \* an IPCServer is constructed on the wrapper (its
                       \* constructor connects the wrapper's signals)
  m_currentClient,     \* QLocalSocket*, NoObj or the accepted socket
  clientState,         \* m_currentClient->state()
  m_clientConnectionVersion,
  m_lastHeartbeat,
  m_sessionStartTime,
  m_pendingMessages,   \* QQueue<QJsonObject>
  m_messageTimestamps, \* QQueue<qint64>
  heartbeatTimer,      \* m_heartbeatTimer is running
  sessionTimeoutTimer, \* m_sessionTimeoutTimer is running
  now,                 \* the wall clock, in ms
  ticks,               \* how often the clock has moved
  attempts,            \* how many connections the server has been offered
  enqueued,            \* how many messages have been put on the queue
  written,             \* what the last operation wrote to the client socket
  discarded,           \* the messages the last operation produced and dropped
  evicted,             \* the messages the last operation pushed out of the queue
  closedSockets,       \* the sockets the last operation closed or disconnected
  dispatched,          \* the dispatch branches the last operation took
  inbound,             \* the messages the last operation handed to handleClientMessage
  subject,             \* the QJsonObject a caller of SecurityManager holds
  signedCopy,          \* what the last signMessage returned, if it was called
  verdicts             \* what the last operation's verifyMessage returned

wrapperVars == <<m_sessions, m_nfcReaderPresent, m_currentActionId, pamSessions,
                 fidoTimers, asyncResults, nextId, crashed, signals, backendCalls,
                 lateCallbacks, lastOp, fidoFailures>>

ipcVars == <<ipcServer, m_currentClient, clientState, m_clientConnectionVersion,
             m_lastHeartbeat, m_sessionStartTime, m_pendingMessages,
             m_messageTimestamps, heartbeatTimer, sessionTimeoutTimer, now, ticks,
             attempts, enqueued, written, discarded, evicted, closedSockets, dispatched,
             inbound>>

secVars == <<subject, signedCopy, verdicts>>

vars == <<wrapperVars, ipcVars, secVars>>

\* ------------------------------------------------------------------------
\* Signals
\* ------------------------------------------------------------------------
Sig(name, cookie, state, method, n, flag, actionId) ==
  [sig |-> name, cookie |-> cookie, state |-> state, method |-> method,
   n |-> n, flag |-> flag, actionId |-> actionId]

\* ------------------------------------------------------------------------
\* IPC server: outbound messages
\* ------------------------------------------------------------------------
\* A QJsonObject sent to the client; `n' is connection_version or timestamp,
\* `error' the text of an error in pieces
OutMsg(type, actionId, cookie, authorized, n, error) ==
  [type |-> type, action_id |-> actionId, cookie |-> cookie,
   authorized |-> authorized, n |-> n, error |-> error]

\* a server that queues every kind of message
NeverQueuedNone == {}

\* line 438: the types queueMessage returns on
NeverQueued == {"heartbeat_ack", "error", "welcome"}

\* a queue that drops the message that arrives when it is full
queueMessageDropsNewest(st, message) ==
  IF message.type \in NeverQueued \/ Len(st.m_pendingMessages) >= MAX_QUEUED_MESSAGES
  THEN [st EXCEPT !.discarded = Append(@, message)]
  ELSE [st EXCEPT !.m_pendingMessages = Append(@, message),
                  !.enqueued = @ + 1]

\* IPCServer::queueMessage
queueMessage(st, message) ==
  IF message.type \in NeverQueued
  THEN [st EXCEPT !.discarded = Append(@, message)]
  ELSE LET s1 == IF Len(st.m_pendingMessages) >= MAX_QUEUED_MESSAGES
                 THEN [st EXCEPT !.evicted = Append(@, Head(st.m_pendingMessages)),
                                 !.m_pendingMessages = Tail(@)]
                 ELSE st
       IN [s1 EXCEPT !.m_pendingMessages = Append(@, message),
                     !.enqueued = @ + 1]

\* m_currentClient && m_currentClient->state() == QLocalSocket::ConnectedState
clientReady(st) ==
  st.m_currentClient # NoObj /\ st.clientState = "ConnectedState"

\* a server that drops what it cannot write at once
sendMessageToClientDropsOffline(st, message) ==
  IF ~clientReady(st) THEN [st EXCEPT !.discarded = Append(@, message)]
  ELSE [st EXCEPT !.written = Append(@, message)]

\* IPCServer::sendMessageToClient
sendMessageToClient(st, message) ==
  IF ~clientReady(st) THEN queueMessage(st, message)
  ELSE [st EXCEPT !.written = Append(@, message)]

\* a server that hangs up on the client it has sent an error to
sendErrorToClientHangsUp(st, error) ==
  LET s1 == sendMessageToClient(st, OutMsg("error", "", NoCookie, FALSE, 0, error))
  IN [s1 EXCEPT !.clientState = "ClosingState",
                !.closedSockets = Append(@, st.m_currentClient)]

\* IPCServer::sendErrorToClient
sendErrorToClient(st, error) ==
  sendMessageToClient(st, OutMsg("error", "", NoCookie, FALSE, 0, error))

\* IPCServer::replayQueuedMessages
RECURSIVE replayQueuedMessages(_)
replayQueuedMessages(st) ==
  IF st.m_pendingMessages = <<>> THEN st
  ELSE LET message == Head(st.m_pendingMessages)
           s1 == [st EXCEPT !.m_pendingMessages = Tail(@)]
       IN replayQueuedMessages(
            IF clientReady(s1) THEN [s1 EXCEPT !.written = Append(@, message)]
            ELSE [s1 EXCEPT !.discarded = Append(@, message)])

\* the message each slot of lines 350-398 builds from the signal it receives
slotMessage(s) ==
  CASE s.sig = "showAuthDialog" ->
         OutMsg("show_auth_dialog", s.actionId, s.cookie, FALSE, 0, <<>>)
    [] s.sig = "authorizationResult" ->
         OutMsg("authorization_result", s.actionId, NoCookie, s.flag, 0, <<>>)
    [] s.sig = "authorizationError" ->
         OutMsg("authorization_error", "", NoCookie, FALSE, 0, <<"authorization error">>)
    [] s.sig = "showPasswordRequest" ->
         OutMsg("password_request", s.actionId, s.cookie, FALSE, 0, <<>>)

\* the signals the constructor connects to a slot (lines 46-54)
ConnectedSignals ==
  {"showAuthDialog", "authorizationResult", "authorizationError", "showPasswordRequest"}

\* the slots the constructor connects to the wrapper's signals
onWrapperSignal(st, s) ==
  IF s.sig \in ConnectedSignals THEN sendMessageToClient(st, slotMessage(s)) ELSE st

\* emit <signal>: the connected slots run before the emitter continues
Emit(st, s) ==
  LET s1 == [st EXCEPT !.signals = Append(@, s)]
  IN IF st.ipcServer THEN onWrapperSignal(s1, s) ELSE s1

\* ------------------------------------------------------------------------
\* State machine helpers
\* ------------------------------------------------------------------------
hasSession(st, cookie) == cookie \in DOMAIN st.m_sessions

setState(st, cookie, newState) ==
  IF ~hasSession(st, cookie) THEN st
  ELSE IF st.m_sessions[cookie].state = newState THEN st
  ELSE Emit([st EXCEPT !.m_sessions[cookie].state = newState],
            Sig("authenticationStateChanged", cookie, newState, "NONE", 0, FALSE, ""))

setMethod(st, cookie, method) ==
  IF ~hasSession(st, cookie) THEN st
  ELSE IF st.m_sessions[cookie].method = method THEN st
  ELSE Emit([st EXCEPT !.m_sessions[cookie].method = method],
            Sig("authenticationMethodChanged", cookie, "IDLE", method, 0, FALSE, ""))

\* QTimer::stop / deleteLater on the timer object t
stopTimer(st, t) ==
  [st EXCEPT !.fidoTimers = {x \in @ : x.id # t}]

\* a FIDO attempt that arms no timer
startFidoTimeoutArmsNothing(st, cookie) == st

startFidoTimeout(st, cookie) ==
  IF ~hasSession(st, cookie) THEN st
  ELSE LET old == st.m_sessions[cookie].fidoTimeoutTimer
           s1  == IF old # NoObj THEN stopTimer(st, old) ELSE st
           t   == st.m_sessions[cookie].id
       IN [s1 EXCEPT !.m_sessions[cookie].fidoTimeoutTimer = t,
                     !.fidoTimers = @ \cup {[id |-> t, cookie |-> cookie]}]

cancelFidoTimeout(st, cookie) ==
  IF ~hasSession(st, cookie) THEN st
  ELSE IF st.m_sessions[cookie].fidoTimeoutTimer = NoObj THEN st
  ELSE [stopTimer(st, st.m_sessions[cookie].fidoTimeoutTimer)
          EXCEPT !.m_sessions[cookie].fidoTimeoutTimer = NoObj]

\* AsyncResult::setError(text); AsyncResult::setCompleted()
failResult(st, r, text) ==
  [st EXCEPT !.asyncResults[r] = [completed |-> @.completed + 1, error |-> text]]

\* AsyncResult::setCompleted()
completeResult(st, r) ==
  [st EXCEPT !.asyncResults[r].completed = @ + 1]

RemoveKey(f, k) == [x \in DOMAIN f \ {k} |-> f[x]]

\* ------------------------------------------------------------------------
\* cleanupSession and the lambda connected to Session::completed.
\* Session::cancel() reports completed(false) synchronously if the
\* conversation has not reported completion yet, so cleanupSession can
\* re-enter the completed lambda, which calls cleanupSession again.
\* ------------------------------------------------------------------------

\* a cleanup that fails the async result but leaves the entry in the map
releaseSessionKeepsEntry(st, cookie) ==
  LET sess == st.m_sessions[cookie]
  IN IF sess.result # NoObj /\ sess.state # "COMPLETED"
     THEN [failResult(st, sess.result, "Session cleaned up")
             EXCEPT !.m_sessions[cookie].result = NoObj]
     ELSE [st EXCEPT !.m_sessions[cookie].result = NoObj]

\* lines 636-647 of cleanupSession: the async result and the map entry
releaseSession(st, cookie) ==
  LET sess == st.m_sessions[cookie]
      s1   == IF sess.result # NoObj /\ sess.state # "COMPLETED"
              THEN failResult(st, sess.result, "Session cleaned up")
              ELSE st
  IN [s1 EXCEPT !.m_sessions = RemoveKey(@, cookie)]

\* a retry counter that counts down instead of up
nextRetryCountDecrement(n) == n - 1

\* line 192: session->retryCount++
nextRetryCount(n) == n + 1

\* lines 196-213: the state a failed completion leads to
failureState(n) ==
  IF n >= MAX_AUTH_RETRIES THEN "MAX_RETRIES_EXCEEDED" ELSE "AUTHENTICATION_FAILED"

\* line 632 onwards, after Session::cancel() has run the lambda for `pam':
\* `s0' is the state before the callback and `r' the state after it; the map
\* node that `session' points to is erased and line 632 reads it
afterCancel(s0, r, pam, cookie, ub) ==
  [r EXCEPT !.lateCallbacks =
              Append(@, [pam |-> pam, cookie |-> cookie,
                         first |-> Len(s0.signals) + 1,
                         last |-> Len(r.signals),
                         results |-> {x \in DOMAIN s0.asyncResults :
                                        r.asyncResults[x] # s0.asyncResults[x]}]),
            \* otherwise the stale node still reads session = result = nullptr
            !.crashed = @ \/ ub[cookie] = "crash"]

\* lines 190-213 of the lambda: a failed attempt is counted and reported
countFailure(st, cookie) ==
  IF ~hasSession(st, cookie) THEN st
  ELSE LET inc == [st EXCEPT !.m_sessions[cookie].retryCount = nextRetryCount(@)]
           n   == inc.m_sessions[cookie].retryCount
       IN Emit(setState(inc, cookie, failureState(n)),
               Sig("authenticationError", cookie, failureState(n),
                   inc.m_sessions[cookie].method, n, FALSE, ""))

\* lines 216-226 of the lambda: the async result is completed
settleResult(st, cookie, gainedAuthorization) ==
  LET r == IF hasSession(st, cookie) THEN st.m_sessions[cookie].result ELSE NoObj
  IN IF r = NoObj THEN st
     ELSE IF gainedAuthorization THEN completeResult(st, r)
     ELSE failResult(st, r, "Authentication failed")

RECURSIVE cleanupSession(_, _, _)
RECURSIVE onCompleted(_, _, _, _)

cleanupSession(st, cookie, ub) ==
  IF st.crashed \/ ~hasSession(st, cookie) THEN st
  ELSE
    LET s1  == cancelFidoTimeout(st, cookie)
        pam == s1.m_sessions[cookie].session
        s0  == [s1 EXCEPT !.pamSessions[pam].done = TRUE]
    IN IF pam = NoObj THEN releaseSession(s1, cookie)
       ELSE IF s1.pamSessions[pam].done
       THEN \* cancel() has nothing left to report
            releaseSession([s1 EXCEPT !.m_sessions[cookie].session = NoObj], cookie)
       ELSE \* cancel() emits completed(false): the lambda runs
            afterCancel(s0, onCompleted(s0, pam, FALSE, ub), pam, cookie, ub)

\* the lambda of lines 178-232, connected for the conversation `pam'
onCompleted(st, pam, gainedAuthorization, ub) ==
  LET cookie   == st.pamSessions[pam].cookie
      actionId == st.pamSessions[pam].actionId
      s1 == cancelFidoTimeout(st, cookie)
      s2 == IF gainedAuthorization THEN setState(s1, cookie, "COMPLETED")
            ELSE countFailure(s1, cookie)
      s3 == settleResult(s2, cookie, gainedAuthorization)
      s4 == Emit(s3, Sig("authorizationResult", NoCookie, "IDLE", "NONE", 0,
                         gainedAuthorization, actionId))
  IN cleanupSession(s4, cookie, ub)

\* an attempt that leaves no mark on the session
markNfcAttemptedForgets(st, cookie) == st

\* line 259: session->nfcAttempted = true
markNfcAttempted(st, cookie) ==
  [st EXCEPT !.m_sessions[cookie].nfcAttempted = TRUE]

\* the lambda of lines 234-284, connected to Session::request
onRequest(st, pam) ==
  LET cookie   == st.pamSessions[pam].cookie
      actionId == st.pamSessions[pam].actionId
  IN IF ~hasSession(st, cookie) THEN st
     ELSE IF st.m_sessions[cookie].session = NoObj THEN st
     ELSE IF st.m_sessions[cookie].state = "MAX_RETRIES_EXCEEDED" THEN st
     ELSE IF st.m_nfcReaderPresent /\ ~st.m_sessions[cookie].nfcAttempted
     THEN LET s1 == setState(st, cookie, "TRYING_FIDO")
              s2 == setMethod(s1, cookie, "FIDO")
              s3 == markNfcAttempted(s2, cookie)
              s4 == startFidoTimeout(s3, cookie)
          IN [s4 EXCEPT !.backendCalls =
                Append(@, [pam |-> st.m_sessions[cookie].session, response |-> ""])]
     ELSE LET s1 == IF st.m_sessions[cookie].nfcAttempted
                    THEN Emit(setState(cancelFidoTimeout(st, cookie), cookie, "FIDO_FAILED"),
                              Sig("authenticationMethodFailed", cookie, "IDLE", "FIDO",
                                  0, FALSE, ""))
                    ELSE st
              s2 == setState(s1, cookie, "WAITING_FOR_PASSWORD")
              s3 == setMethod(s2, cookie, "PASSWORD")
          IN Emit(s3, Sig("showPasswordRequest", cookie, "IDLE", "NONE", 0, FALSE, actionId))

\* lines 293-301 of the lambda: the error is reported and the result failed
reportError(st, cookie) ==
  IF ~hasSession(st, cookie) THEN st
  ELSE LET r == st.m_sessions[cookie].result
           e == Emit(st, Sig("authenticationError", cookie, "ERROR",
                             st.m_sessions[cookie].method, 0, FALSE, ""))
       IN IF r # NoObj THEN failResult(e, r, "Session error") ELSE e

\* the lambda of lines 286-309, connected to Session::showError
onShowError(st, pam, ub) ==
  LET cookie   == st.pamSessions[pam].cookie
      actionId == st.pamSessions[pam].actionId
      s1 == setState(st, cookie, "ERROR")
      s2 == reportError(s1, cookie)
      s3 == Emit(s2, Sig("authorizationResult", NoCookie, "IDLE", "NONE", 0, FALSE, actionId))
  IN cleanupSession(s3, cookie, ub)

\* a timeout handler without the state check of line 890
onFidoTimeoutUnguarded(st, cookie) ==
  IF ~hasSession(st, cookie) THEN st
  ELSE Emit(setState(cancelFidoTimeout(st, cookie), cookie, "FIDO_FAILED"),
            Sig("authenticationMethodFailed", cookie, "IDLE", "FIDO", 0, FALSE, ""))

\* PolkitWrapper::onFidoTimeout, called by the timer's lambda
onFidoTimeout(st, cookie) ==
  IF ~hasSession(st, cookie) THEN st
  ELSE LET s1 == cancelFidoTimeout(st, cookie)   \* lines 884-887: deleteLater, nullptr
       IN IF s1.m_sessions[cookie].state # "TRYING_FIDO" THEN s1
          ELSE Emit(setState(s1, cookie, "FIDO_FAILED"),
                    Sig("authenticationMethodFailed", cookie, "IDLE", "FIDO", 0, FALSE, ""))

\* PolkitWrapper::submitAuthenticationResponse
submitAuthenticationResponse(st, cookie, response) ==
  IF ~hasSession(st, cookie) THEN st
  ELSE IF st.m_sessions[cookie].session = NoObj THEN st
  ELSE IF st.m_sessions[cookie].state = "MAX_RETRIES_EXCEEDED"
  THEN LET m == st.m_sessions[cookie].method
       IN Emit(Emit(st, Sig("authenticationError", cookie, "MAX_RETRIES_EXCEEDED", m,
                            st.m_sessions[cookie].retryCount, FALSE, "")),
               Sig("authorizationError", NoCookie, "MAX_RETRIES_EXCEEDED", m, 0, FALSE, ""))
  ELSE LET s1 == setState(st, cookie, "AUTHENTICATING")
           s2 == setMethod(s1, cookie, "PASSWORD")
       IN [s2 EXCEPT !.backendCalls =
             Append(@, [pam |-> st.m_sessions[cookie].session, response |-> response])]

\* The cookies of the registry in QMap key order
RECURSIVE SortedKeys(_)
SortedKeys(S) ==
  IF S = {} THEN <<>>
  ELSE LET m == CHOOSE x \in S : \A y \in S : x <= y
       IN <<m>> \o SortedKeys(S \ {m})

\* the loop of cancelAuthorization / cancelAuthentication over a copy of the keys
RECURSIVE cancelAll(_, _, _)
cancelAll(st, keys, ub) ==
  IF keys = <<>> \/ st.crashed THEN st
  ELSE LET cookie == Head(keys)
           s1 == IF hasSession(st, cookie)
                 THEN cleanupSession(setState(st, cookie, "CANCELLED"), cookie, ub)
                 ELSE st
       IN cancelAll(s1, Tail(keys), ub)

\* line 111 of cancelAuthorization, which a dead process does not reach
reportCancelled(st) ==
  IF st.crashed THEN st
  ELSE Emit(st, Sig("authorizationResult", NoCookie, "IDLE", "NONE", 0, FALSE,
                    st.m_currentActionId))

\* PolkitWrapper::cancelAuthorization
cancelAuthorization(st, ub) ==
  reportCancelled(cancelAll(st, SortedKeys(DOMAIN st.m_sessions), ub))

\* PolkitWrapper::cancelAuthentication (Listener interface)
cancelAuthentication(st, ub) ==
  cancelAll(st, SortedKeys(DOMAIN st.m_sessions), ub)

\* PolkitWrapper::checkAuthorization
checkAuthorization(st, actionId, authorityError) ==
  IF authorityError
  THEN Emit(st, Sig("authorizationError", NoCookie, "IDLE", "NONE", 0, FALSE, ""))
  ELSE Emit([st EXCEPT !.m_currentActionId = actionId],
            Sig("showAuthDialog", NoCookie, "IDLE", "NONE", 0, FALSE, actionId))

\* PolkitWrapper::initiateAuthentication; `id' names the objects it creates
initiateAuthentication(st, id, actionId, cookie, hasIdentity, hasResult, nfc) ==
  LET sessionState ==
        [id |-> id, cookie |-> cookie, actionId |-> actionId,
         state |-> "IDLE", method |-> "NONE", retryCount |-> 0,
         nfcAttempted |-> FALSE,
         result |-> IF hasResult THEN id ELSE NoObj,
         session |-> NoObj, fidoTimeoutTimer |-> NoObj]
      s1 == [st EXCEPT
               !.m_nfcReaderPresent = nfc,
               !.m_sessions = [c \in DOMAIN @ \cup {cookie} |->
                                 IF c = cookie THEN sessionState ELSE @[c]],
               !.asyncResults = IF hasResult
                                THEN [r \in DOMAIN @ \cup {id} |->
                                        IF r = id THEN [completed |-> 0, error |-> ""]
                                        ELSE @[r]]
                                ELSE @]
      s2 == setState(s1, cookie, "INITIATED")
      s3 == IF hasIdentity
            THEN [s2 EXCEPT
                    !.pamSessions = [q \in DOMAIN @ \cup {id} |->
                                       IF q = id
                                       THEN [cookie |-> cookie, actionId |-> actionId,
                                             done |-> FALSE]
                                       ELSE @[q]],
                    !.m_sessions[cookie].session = id]
            ELSE s2
  IN Emit(s3, Sig("showAuthDialog", cookie, "IDLE", "NONE", 0, FALSE, actionId))

\* ------------------------------------------------------------------------
\* Message validator (message-validator.cpp)
\* ------------------------------------------------------------------------
MAX_STRING_LENGTH == 4096
MAX_ACTION_ID_LENGTH == 256
MAX_COOKIE_LENGTH == 128
MAX_RESPONSE_LENGTH == 8192

VALID_MESSAGE_TYPES ==
  {"check_authorization", "cancel_authorization", "submit_authentication"}

\* A cookie string with a character that is neither a letter, a digit, - nor _
BadCookie == -1

\* QString::length of the strings and cookies the model sends
strLength(v) ==
  CASE v = "" -> 0
    [] v = "pw" -> 2
    [] v \in {"org.a", "nodot"} -> 5
    [] OTHER -> 1

cookieLength(c) == IF c = NoCookie THEN 0 ELSE 1

\* QString::contains('.')
containsDot(v) == v \in {"org.a"}

success == [valid |-> TRUE, error |-> <<>>]
failure(error) == [valid |-> FALSE, error |-> error]

\* MessageValidator::validateString; every value the model puts in a string
\* field is a string
validateString(obj, key, required, maxLength) ==
  IF key \notin DOMAIN obj
  THEN IF required THEN failure(<<"Missing required field: ", key>>) ELSE success
  ELSE LET len == IF key = "cookie" THEN cookieLength(obj[key]) ELSE strLength(obj[key])
       IN IF len > maxLength
          THEN failure(<<"Field ", key, " exceeds maximum length">>)
          ELSE success

\* MessageValidator::validateMessageType
validateMessageType(obj) ==
  IF "type" \notin DOMAIN obj THEN failure(<<"Missing required field: ", "type">>)
  ELSE IF obj.type \notin VALID_MESSAGE_TYPES
  THEN failure(<<"Invalid message type: ", obj.type>>)
  ELSE success

\* MessageValidator::validateCheckAuthorization
validateCheckAuthorization(message) ==
  LET actionResult == validateString(message, "action_id", TRUE, MAX_ACTION_ID_LENGTH)
      detailsResult == validateString(message, "details", FALSE, MAX_STRING_LENGTH)
  IN IF ~actionResult.valid THEN actionResult
     ELSE IF ~detailsResult.valid THEN detailsResult
     ELSE IF message.action_id = "" THEN failure(<<"action_id cannot be empty">>)
     ELSE IF ~containsDot(message.action_id)
     THEN failure(<<"action_id must contain at least one dot (reverse DNS format)">>)
     ELSE success

\* the keys of the protocol in the order a QJsonObject iterates them
QJsonKeyOrder ==
  <<"action_id", "cookie", "details", "hmac", "response", "timestamp", "type">>

\* the first key of `message' outside `allowedKeys', in iteration order
FirstUnexpectedKey(message, allowedKeys) ==
  LET at == CHOOSE i \in DOMAIN QJsonKeyOrder :
              /\ QJsonKeyOrder[i] \in DOMAIN message \ allowedKeys
              /\ \A j \in 1..(i - 1) : QJsonKeyOrder[j] \notin DOMAIN message \ allowedKeys
  IN QJsonKeyOrder[at]

\* MessageValidator::validateCancelAuthorization
validateCancelAuthorization(message) ==
  IF \E k \in DOMAIN message : k # "type"
  THEN failure(<<"Unexpected field in cancel_authorization: ",
                 FirstUnexpectedKey(message, {"type"})>>)
  ELSE success

\* MessageValidator::validateSubmitAuthentication
validateSubmitAuthentication(message) ==
  LET cookieResult == validateString(message, "cookie", TRUE, MAX_COOKIE_LENGTH)
      responseResult == validateString(message, "response", TRUE, MAX_RESPONSE_LENGTH)
  IN IF ~cookieResult.valid THEN cookieResult
     ELSE IF ~responseResult.valid THEN responseResult
     ELSE IF message.cookie = NoCookie THEN failure(<<"cookie cannot be empty">>)
     ELSE IF message.cookie = BadCookie
     THEN failure(<<"cookie contains invalid characters">>)
     ELSE success

\* MessageValidator::validateMessage
validateMessage(message) ==
  LET typeResult == validateMessageType(message)
  IN IF ~typeResult.valid THEN typeResult
     ELSE IF message.type = "check_authorization" THEN validateCheckAuthorization(message)
     ELSE IF message.type = "cancel_authorization" THEN validateCancelAuthorization(message)
     ELSE IF message.type = "submit_authentication"
     THEN validateSubmitAuthentication(message)
     ELSE failure(<<"Unknown message type: ", message.type>>)

\* ------------------------------------------------------------------------
\* Security manager (security.cpp)
\* ------------------------------------------------------------------------
\* SecurityManager::generateHMAC: the keyed digest of `data', kept symbolic
generateHMAC(data) == [key |-> "s_hmacKey", data |-> data]

\* a digest that was not made with the process's key
forgedHMAC(data) == [key |-> "other", data |-> data]

\* QJsonObject with key `k' set to `v'
SetKey(obj, k, v) == [x \in DOMAIN obj \cup {k} |-> IF x = k THEN v ELSE obj[x]]

\* SecurityManager::signMessage at time `t'
signMessage(message, t) ==
  LET signedMessage == SetKey(message, "timestamp", t)
  IN SetKey(signedMessage, "hmac", generateHMAC(signedMessage))

\* a verification that accepts a matching digest whatever the timestamp
verifyMessageAnyTime(message, currentTime) ==
  IF "hmac" \notin DOMAIN message \/ "timestamp" \notin DOMAIN message THEN FALSE
  ELSE generateHMAC(RemoveKey(message, "hmac")) = message.hmac

\* SecurityManager::verifyMessage at time `currentTime'
verifyMessage(message, currentTime) ==
  IF "hmac" \notin DOMAIN message \/ "timestamp" \notin DOMAIN message THEN FALSE
  ELSE IF generateHMAC(RemoveKey(message, "hmac")) # message.hmac THEN FALSE
  ELSE LET timeDiff == currentTime - message.timestamp
       IN ~(timeDiff > MAX_TIME_SKEW_MS \/ timeDiff < -MAX_TIME_SKEW_MS)

\* SecurityManager::isSessionExpired at time `currentTime'
isSessionExpired(sessionStartTime, currentTime) ==
  (currentTime - sessionStartTime) > SESSION_TIMEOUT_MS

\* ------------------------------------------------------------------------
\* IPC server: connections and inbound messages (ipc-server.cpp)
\* ------------------------------------------------------------------------
\* a disconnect that also forgets the rate limiter's window
onClientDisconnectedClearsWindow(st) ==
  IF st.m_currentClient = NoObj THEN st
  ELSE [st EXCEPT !.m_currentClient = NoObj,
                  !.clientState = "UnconnectedState",
                  !.heartbeatTimer = FALSE,
                  !.sessionTimeoutTimer = FALSE,
                  !.m_messageTimestamps = <<>>]

\* IPCServer::onClientDisconnected
onClientDisconnected(st) ==
  IF st.m_currentClient = NoObj THEN st
  ELSE [st EXCEPT !.m_currentClient = NoObj,
                  !.clientState = "UnconnectedState",
                  !.heartbeatTimer = FALSE,
                  !.sessionTimeoutTimer = FALSE]

\* m_currentClient->disconnectFromServer(): with nothing left to write the
\* socket closes at once and reports disconnected, otherwise it is closing
disconnectFromServer(st, immediate) ==
  LET s1 == [st EXCEPT !.closedSockets = Append(@, st.m_currentClient)]
  IN IF immediate THEN onClientDisconnected(s1)
     ELSE [s1 EXCEPT !.clientState = "ClosingState"]

\* a version counter that stands still
nextConnectionVersionSame(n) == n

\* line 156: m_clientConnectionVersion++
nextConnectionVersion(n) == n + 1

\* lines 142-174 of onNewConnection: the pending connection `socket' becomes
\* the client. With `peerClosed' the peer has gone by the time the welcome
\* is flushed: the write fails, the socket reports disconnected and
\* onClientDisconnected runs before the replay
acceptConnection(st, socket, peerClosed) ==
  LET s1 == [st EXCEPT
               !.m_currentClient = socket,
               !.clientState = "ConnectedState",
               !.m_clientConnectionVersion = nextConnectionVersion(@),
               !.m_lastHeartbeat = st.now,
               !.m_sessionStartTime = st.now,
               !.heartbeatTimer = TRUE,
               !.sessionTimeoutTimer = TRUE]
      welcome == OutMsg("welcome", "", NoCookie, FALSE,
                        s1.m_clientConnectionVersion, <<>>)
      s2 == sendMessageToClient(s1, welcome)
  IN replayQueuedMessages(
       IF peerClosed
       THEN onClientDisconnected([s2 EXCEPT !.closedSockets = Append(@, socket)])
       ELSE s2)

\* a server that takes every connection it is offered
onNewConnectionReplaces(st, socket, peerClosed) ==
  acceptConnection(st, socket, peerClosed)

\* IPCServer::onNewConnection for the pending connection `socket'
onNewConnection(st, socket, peerClosed) ==
  IF st.m_currentClient # NoObj
  THEN [st EXCEPT !.closedSockets = Append(@, socket)]
  ELSE acceptConnection(st, socket, peerClosed)

\* the loop of checkRateLimit that drops the timestamps older than the window
RECURSIVE dropOld(_, _)
dropOld(timestamps, currentTime) ==
  IF timestamps # <<>> /\ (currentTime - Head(timestamps)) > RATE_LIMIT_WINDOW_MS
  THEN dropOld(Tail(timestamps), currentTime)
  ELSE timestamps

\* IPCServer::checkRateLimit: the window it leaves
rateLimitWindow(st) == dropOld(Append(st.m_messageTimestamps, st.now), st.now)

\* a limiter that refuses the message that reaches the ceiling
checkRateLimitBelowCeiling(st) ==
  ~(Len(rateLimitWindow(st)) >= MAX_MESSAGES_PER_SECOND)

\* IPCServer::checkRateLimit: its result
checkRateLimit(st) == ~(Len(rateLimitWindow(st)) > MAX_MESSAGES_PER_SECOND)

\* IPCServer::resetSessionTimeout
resetSessionTimeout(st) == [st EXCEPT !.m_sessionStartTime = st.now]

\* lines 248-299 of handleClientMessage: the dispatch on the message type
dispatch(st, message, authorityError, ub) ==
  LET s0 == [st EXCEPT !.dispatched = Append(@, message.type)]
  IN IF message.type = "check_authorization"
     THEN checkAuthorization(resetSessionTimeout(s0), message.action_id, authorityError)
     ELSE IF message.type = "cancel_authorization"
     THEN cancelAuthorization(s0, ub)
     ELSE IF message.type = "submit_authentication"
     THEN submitAuthenticationResponse(resetSessionTimeout(s0), message.cookie,
                                       message.response)
     ELSE IF message.type = "heartbeat"
     THEN LET s1 == resetSessionTimeout([s0 EXCEPT !.m_lastHeartbeat = st.now])
          IN sendMessageToClient(s1, OutMsg("heartbeat_ack", "", NoCookie, FALSE,
                                            s1.m_lastHeartbeat, <<>>))
     ELSE sendErrorToClient([st EXCEPT !.dispatched = Append(@, "unknown")],
                            <<"Unknown message type: ", message.type>>)

\* a pipeline that validates the message before it looks at rate and session
handleClientMessageValidatesFirst(st, message, immediate, authorityError, ub) ==
  LET s1 == [st EXCEPT !.inbound = Append(@, message),
                       !.m_messageTimestamps = rateLimitWindow(st)]
      validation == validateMessage(message)
  IN IF ~validation.valid
     THEN sendErrorToClient(s1, <<"Invalid message: ">> \o validation.error)
     ELSE IF ~checkRateLimit(st) THEN sendErrorToClient(s1, <<"Rate limit exceeded">>)
     ELSE IF isSessionExpired(s1.m_sessionStartTime, s1.now)
     THEN IF s1.m_currentClient # NoObj THEN disconnectFromServer(s1, immediate) ELSE s1
     ELSE IF "hmac" \in DOMAIN message /\ ~verifyMessage(message, s1.now)
     THEN sendErrorToClient(s1, <<"Message authentication failed">>)
     ELSE dispatch(s1, message, authorityError, ub)

\* IPCServer::handleClientMessage
handleClientMessage(st, message, immediate, authorityError, ub) ==
  LET s1 == [st EXCEPT !.inbound = Append(@, message),
                       !.m_messageTimestamps = rateLimitWindow(st)]
      validation == validateMessage(message)
  IN IF ~checkRateLimit(st) THEN sendErrorToClient(s1, <<"Rate limit exceeded">>)
     ELSE IF isSessionExpired(s1.m_sessionStartTime, s1.now)
     THEN IF s1.m_currentClient # NoObj THEN disconnectFromServer(s1, immediate) ELSE s1
     ELSE IF ~validation.valid
     THEN sendErrorToClient(s1, <<"Invalid message: ">> \o validation.error)
     ELSE IF "hmac" \in DOMAIN message /\ ~verifyMessage(message, s1.now)
     THEN sendErrorToClient(s1, <<"Message authentication failed">>)
     ELSE dispatch(s1, message, authorityError, ub)

\* QJsonDocument::fromJson and QJsonDocument::object: the bytes parse when
\* they are one JSON value, with nothing but white space after it
fromJson(data) ==
  IF Len(data) = 1 /\ data[1].piece = "line"
  THEN [ok |-> TRUE, object |-> data[1].msg]
  ELSE [ok |-> FALSE, object |-> [type |-> "none"]]

\* IPCServer::onClientDataReady, readAll having returned `data'
onClientDataReady(st, data, immediate, authorityError, ub) ==
  IF st.m_currentClient = NoObj THEN st
  ELSE IF ~fromJson(data).ok THEN st
  ELSE handleClientMessage(st, fromJson(data).object, immediate, authorityError, ub)

\* IPCServer::onHeartbeatTimeout
onHeartbeatTimeout(st, immediate) ==
  IF (st.now - st.m_lastHeartbeat) > CONNECTION_TIMEOUT_MS /\ st.m_currentClient # NoObj
  THEN disconnectFromServer(st, immediate)
  ELSE st

\* IPCServer::onSessionTimeout
onSessionTimeout(st, immediate) ==
  IF isSessionExpired(st.m_sessionStartTime, st.now) /\ st.m_currentClient # NoObj
  THEN disconnectFromServer(
         sendErrorToClient(st, <<"Session timeout - please reconnect">>), immediate)
  ELSE st

\* ------------------------------------------------------------------------
\* The state machine
\* ------------------------------------------------------------------------
Cur ==
  [m_sessions |-> m_sessions, m_nfcReaderPresent |-> m_nfcReaderPresent,
   m_currentActionId |-> m_currentActionId, pamSessions |-> pamSessions,
   fidoTimers |-> fidoTimers, asyncResults |-> asyncResults,
   crashed |-> crashed, signals |-> <<>>, backendCalls |-> <<>>,
   lateCallbacks |-> <<>>,
   ipcServer |-> ipcServer, m_currentClient |-> m_currentClient,
   clientState |-> clientState,
   m_clientConnectionVersion |-> m_clientConnectionVersion,
   m_lastHeartbeat |-> m_lastHeartbeat, m_sessionStartTime |-> m_sessionStartTime,
   m_pendingMessages |-> m_pendingMessages,
   m_messageTimestamps |-> m_messageTimestamps,
   heartbeatTimer |-> heartbeatTimer, sessionTimeoutTimer |-> sessionTimeoutTimer,
   now |-> now, ticks |-> ticks, attempts |-> attempts, enqueued |-> enqueued,
   written |-> <<>>, discarded |-> <<>>, evicted |-> <<>>,
   closedSockets |-> <<>>, dispatched |-> <<>>, inbound |-> <<>>]

\* authenticationState(cookie) for a non-empty cookie
authenticationState(cookie) ==
  IF cookie \in DOMAIN m_sessions THEN m_sessions[cookie].state ELSE "IDLE"

hasActiveSessions == DOMAIN m_sessions # {}

sessionRetryCount(cookie) ==
  IF cookie \in DOMAIN m_sessions THEN m_sessions[cookie].retryCount ELSE 0

Op(name, cookie, pam, flag, response) ==
  [op |-> name, cookie |-> cookie, pam |-> pam, flag |-> flag, response |-> response,
   pre |-> IF cookie = NoCookie THEN "IDLE" ELSE authenticationState(cookie),
   live |-> DOMAIN m_sessions]

\* The emissions of authenticationMethodFailed(cookie, FIDO, ...) counted per
\* session of the registry `r', those of r.signals added to the earlier ones
countMethodFailed(r) ==
  [i \in {r.m_sessions[c].id : c \in DOMAIN r.m_sessions} |->
     LET c       == CHOOSE c \in DOMAIN r.m_sessions : r.m_sessions[c].id = i
         earlier == IF i \in DOMAIN fidoFailures THEN fidoFailures[i] ELSE 0
         emitted == Cardinality({k \in DOMAIN r.signals :
                                   /\ r.signals[k].sig = "authenticationMethodFailed"
                                   /\ r.signals[k].method = "FIDO"
                                   /\ r.signals[k].cookie = c})
     IN IF earlier + emitted > 1 THEN 2 ELSE earlier + emitted]

Commit(st, op) ==
  LET r == st IN
  /\ m_sessions' = r.m_sessions
  /\ m_nfcReaderPresent' = r.m_nfcReaderPresent
  /\ m_currentActionId' = r.m_currentActionId
  /\ pamSessions' = r.pamSessions
  /\ fidoTimers' = r.fidoTimers
  /\ asyncResults' = r.asyncResults
  /\ crashed' = r.crashed
  /\ signals' = r.signals
  /\ backendCalls' = r.backendCalls
  /\ lateCallbacks' = r.lateCallbacks
  /\ lastOp' = op
  /\ fidoFailures' = countMethodFailed(r)
  /\ ipcServer' = r.ipcServer
  /\ m_currentClient' = r.m_currentClient
  /\ clientState' = r.clientState
  /\ m_clientConnectionVersion' = r.m_clientConnectionVersion
  /\ m_lastHeartbeat' = r.m_lastHeartbeat
  /\ m_sessionStartTime' = r.m_sessionStartTime
  /\ m_pendingMessages' = r.m_pendingMessages
  /\ m_messageTimestamps' = r.m_messageTimestamps
  /\ heartbeatTimer' = r.heartbeatTimer
  /\ sessionTimeoutTimer' = r.sessionTimeoutTimer
  /\ now' = r.now
  /\ ticks' = r.ticks
  /\ attempts' = r.attempts
  /\ enqueued' = r.enqueued
  /\ written' = r.written
  /\ discarded' = r.discarded
  /\ evicted' = r.evicted
  /\ closedSockets' = r.closedSockets
  /\ dispatched' = r.dispatched
  /\ inbound' = r.inbound
  /\ UNCHANGED secVars

\* PolkitWrapper::PolkitWrapper
InitWrapper ==
  /\ m_sessions = <<>>
  /\ fidoFailures = <<>>
  /\ m_nfcReaderPresent = FALSE
  /\ m_currentActionId = ""
  /\ pamSessions = <<>>
  /\ fidoTimers = {}
  /\ asyncResults = <<>>
  /\ crashed = FALSE
  /\ signals = <<>>
  /\ backendCalls = <<>>
  /\ lateCallbacks = <<>>
  /\ lastOp = [op |-> "init", cookie |-> NoCookie, pam |-> NoObj, flag |-> FALSE,
               response |-> "", pre |-> "IDLE", live |-> {}]

\* IPCServer::IPCServer, or no server at all
InitServer(constructed) ==
  /\ ipcServer = constructed
  /\ m_currentClient = NoObj
  /\ clientState = "UnconnectedState"
  /\ m_clientConnectionVersion = 0
  /\ m_lastHeartbeat = 0
  /\ m_sessionStartTime = 0
  /\ m_messageTimestamps = <<>>
  /\ heartbeatTimer = FALSE
  /\ sessionTimeoutTimer = FALSE
  /\ now = StartTime
  /\ ticks = 0
  /\ attempts = 0
  /\ enqueued = 0
  /\ written = <<>>
  /\ discarded = <<>>
  /\ evicted = <<>>
  /\ closedSockets = <<>>
  /\ dispatched = <<>>
  /\ inbound = <<>>

\* no caller of SecurityManager holds a message
SecIdle ==
  /\ subject = [type |-> "none"]
  /\ signedCopy = <<>>
  /\ verdicts = <<>>

\* The wrapper on its own, as the state machine's tests construct it
Init ==
  /\ InitWrapper
  /\ nextId = 1
  /\ InitServer(FALSE)
  /\ m_pendingMessages = <<>>
  /\ SecIdle

\* What the messages of completed authentications look like in the queue
\* when no client has connected yet: two short of MAX_QUEUED_MESSAGES
QueuedBefore ==
  [i \in 1..(MAX_QUEUED_MESSAGES - 2) |->
     IF i % 2 = 1
     THEN OutMsg("show_auth_dialog", "org.a", 1, FALSE, 0, <<>>)
     ELSE OutMsg("authorization_result", "org.a", NoCookie, TRUE, 0, <<>>)]

\* The variables hold the record `r', reached by the operation `op'
StateIs(r, op) ==
  /\ m_sessions = r.m_sessions
  /\ m_nfcReaderPresent = r.m_nfcReaderPresent
  /\ m_currentActionId = r.m_currentActionId
  /\ pamSessions = r.pamSessions
  /\ fidoTimers = r.fidoTimers
  /\ asyncResults = r.asyncResults
  /\ crashed = r.crashed
  /\ signals = r.signals
  /\ backendCalls = r.backendCalls
  /\ lateCallbacks = r.lateCallbacks
  /\ lastOp = op
  /\ ipcServer = r.ipcServer
  /\ m_currentClient = r.m_currentClient
  /\ clientState = r.clientState
  /\ m_clientConnectionVersion = r.m_clientConnectionVersion
  /\ m_lastHeartbeat = r.m_lastHeartbeat
  /\ m_sessionStartTime = r.m_sessionStartTime
  /\ m_pendingMessages = r.m_pendingMessages
  /\ m_messageTimestamps = r.m_messageTimestamps
  /\ heartbeatTimer = r.heartbeatTimer
  /\ sessionTimeoutTimer = r.sessionTimeoutTimer
  /\ now = r.now
  /\ ticks = r.ticks
  /\ attempts = r.attempts
  /\ enqueued = r.enqueued
  /\ written = r.written
  /\ discarded = r.discarded
  /\ evicted = r.evicted
  /\ closedSockets = r.closedSockets
  /\ dispatched = r.dispatched
  /\ inbound = r.inbound

\* PolkitWrapper::PolkitWrapper and IPCServer::IPCServer, with `queued' in
\* the outbound queue
Constructed(queued) ==
  [m_sessions |-> <<>>, m_nfcReaderPresent |-> FALSE, m_currentActionId |-> "",
   pamSessions |-> <<>>, fidoTimers |-> {}, asyncResults |-> <<>>,
   crashed |-> FALSE, signals |-> <<>>, backendCalls |-> <<>>,
   lateCallbacks |-> <<>>,
   ipcServer |-> TRUE, m_currentClient |-> NoObj, clientState |-> "UnconnectedState",
   m_clientConnectionVersion |-> 0, m_lastHeartbeat |-> 0, m_sessionStartTime |-> 0,
   m_pendingMessages |-> queued, m_messageTimestamps |-> <<>>,
   heartbeatTimer |-> FALSE, sessionTimeoutTimer |-> FALSE,
   now |-> StartTime, ticks |-> 0, attempts |-> 0, enqueued |-> 0,
   written |-> <<>>, discarded |-> <<>>, evicted |-> <<>>,
   closedSockets |-> <<>>, dispatched |-> <<>>, inbound |-> <<>>]

\* The agent as main() starts it, the wrapper with an IPC server on it,
\* after polkit has asked for an authentication and before a client connects
IpcInit ==
  /\ nextId = MaxSessions + 1
  /\ fidoFailures = (MaxSessions :> 0)
  /\ SecIdle
  /\ \E queued \in {<<>>, QueuedBefore}, hasIdentity \in BOOLEAN :
       StateIs(initiateAuthentication(Constructed(queued), MaxSessions, "org.a", 1,
                                      hasIdentity, TRUE, FALSE),
               [op |-> "initiateAuthentication", cookie |-> 1, pam |-> NoObj,
                flag |-> FALSE, response |-> "", pre |-> "IDLE", live |-> {}])

InitiateAuthentication ==
  /\ ~crashed
  /\ nextId <= MaxSessions
  /\ \E cookie \in Cookies, actionId \in ActionIds,
        hasIdentity \in BOOLEAN, hasResult \in BOOLEAN, nfc \in BOOLEAN :
       /\ Commit(initiateAuthentication(Cur, nextId, actionId, cookie,
                                        hasIdentity, hasResult, nfc),
                 Op("initiateAuthentication", cookie, NoObj, nfc, ""))
       /\ nextId' = nextId + 1

LivePams == {q \in DOMAIN pamSessions : ~pamSessions[q].done}

\* The outcomes of the undefined behaviour that a step can meet: one per
\* cookie whose cleanup would re-enter the completed lambda.
UBChoices(st) ==
  {ub \in [Cookies -> UBOutcomes] :
     \A c \in Cookies :
       ub[c] = "crash" =>
         /\ hasSession(st, c)
         /\ st.m_sessions[c].session # NoObj
         /\ ~st.pamSessions[st.m_sessions[c].session].done}

BackendRequest ==
  /\ ~crashed
  /\ enqueued < MaxEnqueued
  /\ \E pam \in LivePams :
       Commit(onRequest(Cur, pam), Op("request", pamSessions[pam].cookie, pam, FALSE, ""))
  /\ UNCHANGED nextId

BackendCompleted ==
  /\ ~crashed
  /\ enqueued < MaxEnqueued
  /\ \E pam \in LivePams, gainedAuthorization \in BOOLEAN :
     \E ub \in UBChoices([Cur EXCEPT !.pamSessions[pam].done = TRUE]) :
       Commit(onCompleted([Cur EXCEPT !.pamSessions[pam].done = TRUE],
                          pam, gainedAuthorization, ub),
              Op("completed", pamSessions[pam].cookie, pam, gainedAuthorization, ""))
  /\ UNCHANGED nextId

BackendShowError ==
  /\ ~crashed
  /\ \E pam \in LivePams, ub \in UBChoices(Cur) :
       Commit(onShowError(Cur, pam, ub),
              Op("showError", pamSessions[pam].cookie, pam, FALSE, ""))
  /\ UNCHANGED nextId

FidoTimerFires ==
  /\ ~crashed
  /\ \E t \in fidoTimers :
       Commit(onFidoTimeout([Cur EXCEPT !.fidoTimers = @ \ {t}], t.cookie),
              Op("fidoTimeout", t.cookie, t.id, FALSE, ""))
  /\ UNCHANGED nextId

SubmitAuthenticationResponse ==
  /\ ~crashed
  /\ \E cookie \in Cookies, response \in Responses :
       Commit(submitAuthenticationResponse(Cur, cookie, response),
              Op("submit", cookie, NoObj, FALSE, response))
  /\ UNCHANGED nextId

CancelAuthorization ==
  /\ ~crashed
  /\ \E ub \in UBChoices(Cur) :
       Commit(cancelAuthorization(Cur, ub), Op("cancelAuthorization", NoCookie, NoObj, FALSE, ""))
  /\ UNCHANGED nextId

CancelAuthentication ==
  /\ ~crashed
  /\ enqueued < MaxEnqueued
  /\ \E ub \in UBChoices(Cur) :
       Commit(cancelAuthentication(Cur, ub), Op("cancelAuthentication", NoCookie, NoObj, FALSE, ""))
  /\ UNCHANGED nextId

CheckAuthorization ==
  /\ ~crashed
  /\ \E actionId \in ActionIds, authorityError \in BOOLEAN :
       Commit(checkAuthorization(Cur, actionId, authorityError),
              Op("checkAuthorization", NoCookie, NoObj, authorityError, ""))
  /\ UNCHANGED nextId

Next ==
  \/ InitiateAuthentication
  \/ BackendRequest
  \/ BackendCompleted
  \/ BackendShowError
  \/ FidoTimerFires
  \/ SubmitAuthenticationResponse
  \/ CancelAuthorization
  \/ CancelAuthentication
  \/ CheckAuthorization

Spec == Init /\ [][Next]_vars

\* ------------------------------------------------------------------------
\* The agent with its IPC server
\* ------------------------------------------------------------------------
\* The JSON objects a client sends at time `t'
InboundMessages(t) ==
  LET check == [type |-> "check_authorization", action_id |-> "org.a"]
  IN {check,
      [type |-> "check_authorization"],
      [type |-> "cancel_authorization"],
      [type |-> "heartbeat"],
      [type |-> "heartbeat", timestamp |-> t],
      signMessage(check, t),
      signMessage([type |-> "cancel_authorization"], t),
      signMessage(check, t - (MAX_TIME_SKEW_MS + 1)),
      RemoveKey(signMessage(check, t), "timestamp"),
      SetKey(SetKey(check, "timestamp", t), "hmac",
             forgedHMAC(SetKey(check, "timestamp", t)))}
    \cup {[type |-> "submit_authentication", cookie |-> c, response |-> "pw"] :
            c \in Cookies}

\* What one readAll can return, as the pieces of the byte stream it holds:
\* a whole line, the first or the last part of a line, a line of no JSON
Reads(t) ==
  LET check == [type |-> "check_authorization", action_id |-> "org.a"]
      Line(message) == [piece |-> "line", msg |-> message]
  IN {<<Line(message)>> : message \in InboundMessages(t)}
       \cup {<<[piece |-> "garbage"]>>,
             <<Line(check), Line([type |-> "cancel_authorization"])>>,
             <<[piece |-> "head", msg |-> check]>>,
             <<[piece |-> "tail", msg |-> check]>>}

\* QLocalServer::newConnection
NewConnection ==
  /\ ipcServer /\ ~crashed
  /\ attempts < MaxConnections
  /\ \E peerClosed \in BOOLEAN :
       Commit(onNewConnection([Cur EXCEPT !.attempts = @ + 1], attempts + 1, peerClosed),
              Op("newConnection", NoCookie, NoObj, m_currentClient = NoObj, ""))
  /\ UNCHANGED nextId

\* QLocalSocket::disconnected: the client went away, or a closing socket closed
SocketDisconnected ==
  /\ ipcServer /\ ~crashed
  /\ m_currentClient # NoObj
  /\ Commit(onClientDisconnected(Cur), Op("disconnected", NoCookie, NoObj, FALSE, ""))
  /\ UNCHANGED nextId

\* QLocalSocket::readyRead -> IPCServer::onClientDataReady
ClientDataReady ==
  /\ ipcServer /\ ~crashed
  /\ m_currentClient # NoObj
  /\ Len(m_messageTimestamps) <= MAX_MESSAGES_PER_SECOND + 1
  /\ enqueued < MaxEnqueued
  /\ \E data \in Reads(now) :
     \E immediate \in IF isSessionExpired(m_sessionStartTime, now)
                       THEN BOOLEAN ELSE {FALSE},
        authorityError \in IF fromJson(data).object.type = "check_authorization"
                            THEN BOOLEAN ELSE {FALSE},
        ub \in IF fromJson(data).object.type = "cancel_authorization"
                THEN UBChoices(Cur) ELSE {"stale"} :
       Commit(onClientDataReady(Cur, data, immediate, authorityError, ub),
              [data |-> data]
                @@ Op("clientData", NoCookie, NoObj, fromJson(data).ok, ""))
  /\ UNCHANGED nextId

\* m_heartbeatTimer's timeout
HeartbeatTimerFires ==
  /\ ipcServer /\ ~crashed
  /\ heartbeatTimer
  /\ \E immediate \in BOOLEAN :
       Commit(onHeartbeatTimeout(Cur, immediate),
              Op("heartbeatTimeout", NoCookie, NoObj, FALSE, ""))
  /\ UNCHANGED nextId

\* m_sessionTimeoutTimer's timeout
SessionTimeoutTimerFires ==
  /\ ipcServer /\ ~crashed
  /\ sessionTimeoutTimer
  /\ \E immediate \in BOOLEAN :
       Commit(onSessionTimeout(Cur, immediate),
              Op("sessionTimeout", NoCookie, NoObj, FALSE, ""))
  /\ UNCHANGED nextId

\* time passes
Tick ==
  /\ ipcServer /\ ~crashed
  /\ ticks < MaxTicks
  /\ \E d \in TickSteps :
       Commit([Cur EXCEPT !.now = @ + d, !.ticks = @ + 1],
              Op("tick", NoCookie, NoObj, FALSE, ""))
  /\ UNCHANGED nextId

IpcNext ==
  \/ NewConnection
  \/ SocketDisconnected
  \/ ClientDataReady
  \/ HeartbeatTimerFires
  \/ SessionTimeoutTimerFires
  \/ Tick
  \/ BackendRequest
  \/ BackendCompleted
  \/ CancelAuthentication

IpcSpec == IpcInit /\ [][IpcNext]_vars

\* ------------------------------------------------------------------------
\* SecurityManager::signMessage and verifyMessage on their own, as the
\* security tests call them
\* ------------------------------------------------------------------------
\* the messages a caller starts from
SecMessages ==
  {[type |-> "check_authorization", action_id |-> "org.a"],
   [type |-> "cancel_authorization"],
   [type |-> "test_message", data |-> "test data"],
   [type |-> "heartbeat", timestamp |-> StartTime]}

\* how many digests are nested in the message's hmac
RECURSIVE HmacDepth(_)
HmacDepth(message) ==
  IF "hmac" \notin DOMAIN message THEN 0 ELSE 1 + HmacDepth(message.hmac.data)

\* another value for the field `k' of `message'
OtherValue(message, k) ==
  IF k = "timestamp" THEN message[k] + 1
  ELSE IF k = "hmac" THEN forgedHMAC(RemoveKey(message, "hmac"))
  ELSE "tampered"

SecInit ==
  /\ InitWrapper
  /\ nextId = 1
  /\ InitServer(FALSE)
  /\ m_pendingMessages = <<>>
  /\ subject \in SecMessages
  /\ signedCopy = <<>>
  /\ verdicts = <<>>

\* SecurityManager::signMessage(subject), the caller keeps the result
SecSign ==
  /\ HmacDepth(subject) < MaxHmacDepth
  /\ subject' = signMessage(subject, now)
  /\ signedCopy' = <<signMessage(subject, now)>>
  /\ verdicts' = <<>>
  /\ UNCHANGED <<wrapperVars, ipcVars>>

\* the message is changed on its way: a field gets another value, a field
\* is added, or a security field is removed
SecAlter ==
  /\ signedCopy = <<subject>>
  /\ \/ \E k \in DOMAIN subject : subject' = SetKey(subject, k, OtherValue(subject, k))
     \/ subject' = SetKey(subject, "details", "tampered")
     \/ \E k \in {"hmac", "timestamp"} : subject' = RemoveKey(subject, k)
  /\ verdicts' = <<>>
  /\ UNCHANGED <<wrapperVars, ipcVars, signedCopy>>

\* SecurityManager::verifyMessage(subject)
SecVerify ==
  /\ verdicts' = <<verifyMessage(subject, now)>>
  /\ UNCHANGED <<wrapperVars, ipcVars, subject, signedCopy>>

\* QDateTime::currentMSecsSinceEpoch moves, forward or backward
SecTick ==
  /\ ticks < MaxSecTicks
  /\ \E d \in SecTickSteps : now' = now + d
  /\ ticks' = ticks + 1
  /\ verdicts' = <<>>
  /\ UNCHANGED <<wrapperVars, m_currentClient, clientState, m_clientConnectionVersion,
                 m_lastHeartbeat, m_sessionStartTime, m_pendingMessages,
                 m_messageTimestamps, heartbeatTimer, sessionTimeoutTimer, ipcServer,
                 attempts, enqueued, written, discarded, evicted, closedSockets,
                 dispatched, inbound, subject, signedCopy>>

SecNext ==
  \/ SecSign
  \/ SecAlter
  \/ SecVerify
  \/ SecTick

SecSpec == SecInit /\ [][SecNext]_vars

\* ------------------------------------------------------------------------
\* Properties
\* ------------------------------------------------------------------------

\* The authenticationError signals of the last operation that report a
\* failed attempt together with the retry count reached (lines 202-212)
RetryReports ==
  {i \in DOMAIN signals :
     /\ signals[i].sig = "authenticationError"
     /\ signals[i].state \in {"AUTHENTICATION_FAILED", "MAX_RETRIES_EXCEEDED"}}

StateChanges(cookie) ==
  {i \in DOMAIN signals :
     /\ signals[i].sig = "authenticationStateChanged"
     /\ signals[i].cookie = cookie}

\* C1: a session's retryCount never decreases and never exceeds
\* MAX_AUTH_RETRIES, in the registry and in every count a failed completion
\* reports; a count of MAX_AUTH_RETRIES comes with MAX_RETRIES_EXCEEDED.
C1_RetryCountBounded ==
  /\ [](\A c \in DOMAIN m_sessions :
          /\ m_sessions[c].retryCount \in 0..MAX_AUTH_RETRIES
          /\ m_sessions[c].retryCount >= MAX_AUTH_RETRIES
               => m_sessions[c].state = "MAX_RETRIES_EXCEEDED")
  /\ [](\A i \in RetryReports :
          /\ signals[i].n \in 1..MAX_AUTH_RETRIES
          /\ signals[i].n >= MAX_AUTH_RETRIES => signals[i].state = "MAX_RETRIES_EXCEEDED"
          /\ \A j \in RetryReports :
               (i < j /\ signals[i].cookie = signals[j].cookie)
                 => signals[i].n <= signals[j].n)
  /\ [][\A c \in DOMAIN m_sessions \cap DOMAIN m_sessions' :
          m_sessions'[c].id = m_sessions[c].id
            => m_sessions'[c].retryCount >= m_sessions[c].retryCount]_vars

\* a failed completion of a submitted password has raised the count to 1
C1_Witness ==
  /\ lastOp.op = "completed" /\ ~lastOp.flag /\ lastOp.pre = "AUTHENTICATING"
  /\ \E i \in RetryReports : signals[i].cookie = lastOp.cookie /\ signals[i].n = 1

\* the last operation was the backend reporting a wrong password:
\* completed(false) for a session that was AUTHENTICATING, with `n' failures
FailedAttempt(n) ==
  /\ lastOp.op = "completed" /\ ~lastOp.flag /\ lastOp.pre = "AUTHENTICATING"
  /\ \E i \in RetryReports : signals[i].cookie = lastOp.cookie /\ signals[i].n = n
  /\ \A i \in RetryReports : signals[i].n <= n

\* C2: after a failed completion that leaves retryCount below
\* MAX_AUTH_RETRIES the session is still in the registry, has passed
\* through AUTHENTICATION_FAILED and is back in WAITING_FOR_PASSWORD.
C2_FailureKeepsSessionForRetry ==
  \A n \in 1..(MAX_AUTH_RETRIES - 1) :
    FailedAttempt(n) =>
      /\ lastOp.cookie \in DOMAIN m_sessions
      /\ \E i \in StateChanges(lastOp.cookie) : signals[i].state = "AUTHENTICATION_FAILED"
      /\ authenticationState(lastOp.cookie) = "WAITING_FOR_PASSWORD"

\* C3: the first and the second failed submission leave the session active
\* with retryCount 1 and 2; only the third gives MAX_RETRIES_EXCEEDED,
\* and the session is gone after it.
C3_FailuresCountUpToMax ==
  /\ \A n \in 1..(MAX_AUTH_RETRIES - 1) :
       FailedAttempt(n) =>
         /\ hasActiveSessions
         /\ sessionRetryCount(lastOp.cookie) = n
  /\ FailedAttempt(MAX_AUTH_RETRIES) =>
       /\ \E i \in StateChanges(lastOp.cookie) : signals[i].state = "MAX_RETRIES_EXCEEDED"
       /\ lastOp.cookie \notin DOMAIN m_sessions
  /\ \A i \in DOMAIN signals :
       (signals[i].sig = "authenticationStateChanged"
          /\ signals[i].state = "MAX_RETRIES_EXCEEDED")
         => \E j \in RetryReports : signals[j].cookie = signals[i].cookie
                                    /\ signals[j].n >= MAX_AUTH_RETRIES

\* C4: setCompleted is invoked at most once on every async result.
C4_ResultCompletedOnce ==
  \A r \in DOMAIN asyncResults : asyncResults[r].completed <= 1

\* The terminal states that the last operation reported for a cookie
ReportedTerminal(cookie) ==
  {signals[i].state : i \in {j \in StateChanges(cookie) :
                                signals[j].state \in TerminalStates}}

\* C5: no session of the registry is in a terminal state, and a cookie whose
\* session the last operation took to a terminal state is absent from the
\* registry (authenticationState reports IDLE).
C5_NoTerminalSessionRemains ==
  /\ \A c \in DOMAIN m_sessions : m_sessions[c].state \notin TerminalStates
  /\ \A c \in Cookies :
       ReportedTerminal(c) # {} =>
         /\ c \notin DOMAIN m_sessions
         /\ authenticationState(c) = "IDLE"
         /\ (lastOp.live \subseteq {c} => ~hasActiveSessions)

\* a successful completion has taken the only session to COMPLETED
C5_Witness ==
  /\ ~crashed
  /\ lastOp.op = "completed" /\ lastOp.flag /\ lastOp.pre = "AUTHENTICATING"
  /\ lastOp.live = {lastOp.cookie}
  /\ "COMPLETED" \in ReportedTerminal(lastOp.cookie)
  /\ ~hasActiveSessions

\* The armed FIDO timers that fire into a cookie
ArmedTimers(cookie) == {t \in fidoTimers : t.cookie = cookie}

\* C7: a non-empty password submitted while the session is TRYING_FIDO
\* leaves no FIDO timer armed, method PASSWORD and state AUTHENTICATING.
C7_SubmitCancelsFidoTimer ==
  (lastOp.op = "submit" /\ lastOp.response # "" /\ lastOp.pre = "TRYING_FIDO") =>
    /\ lastOp.cookie \in DOMAIN m_sessions
    /\ m_sessions[lastOp.cookie].state = "AUTHENTICATING"
    /\ m_sessions[lastOp.cookie].method = "PASSWORD"
    /\ m_sessions[lastOp.cookie].fidoTimeoutTimer = NoObj
    /\ ArmedTimers(lastOp.cookie) = {}

\* What a session's registry entry says to an observer
Observable(sess) ==
  [state |-> sess.state, method |-> sess.method, retryCount |-> sess.retryCount]

Observables(reg) == [c \in DOMAIN reg |-> Observable(reg[c])]

\* C8: a FIDO timer fire takes a session that is TRYING_FIDO to FIDO_FAILED
\* and announces the failed method; any other fire (state has advanced,
\* session removed) changes no state, method or retryCount.
C8_StaleFidoTimeoutIgnored ==
  [][lastOp'.op = "fidoTimeout" =>
       LET c == lastOp'.cookie IN
         IF c \in DOMAIN m_sessions /\ m_sessions[c].state = "TRYING_FIDO"
         THEN /\ Observables(m_sessions') =
                   [Observables(m_sessions) EXCEPT ![c].state = "FIDO_FAILED"]
              /\ \E i \in DOMAIN signals' :
                   /\ signals'[i].sig = "authenticationMethodFailed"
                   /\ signals'[i].cookie = c /\ signals'[i].method = "FIDO"
         ELSE /\ Observables(m_sessions') = Observables(m_sessions)
              /\ signals' = <<>>]_vars

\* a timer has fired into a session that a submission had already moved on
C8_Witness ==
  /\ lastOp.op = "fidoTimeout" /\ lastOp.pre = "AUTHENTICATING"
  /\ authenticationState(lastOp.cookie) = "AUTHENTICATING"
  /\ signals = <<>>

\* line 253: the path a session's next backend prompt takes
PromptPath(reg, nfc, c) ==
  IF nfc /\ ~reg[c].nfcAttempted THEN "FIDO" ELSE "PASSWORD"

\* C9: an operation addressed to one cookie changes neither another
\* session's state, method or retryCount nor the path that session's next
\* prompt will take.
C9_SessionsIndependent ==
  [][lastOp'.op \in {"initiateAuthentication", "request", "completed",
                     "showError", "submit", "fidoTimeout"} =>
       \A c \in DOMAIN m_sessions \ {lastOp'.cookie} :
         /\ c \in DOMAIN m_sessions'
         /\ Observable(m_sessions'[c]) = Observable(m_sessions[c])
         /\ PromptPath(m_sessions', m_nfcReaderPresent', c)
              = PromptPath(m_sessions, m_nfcReaderPresent, c)]_vars

\* C10: an explicit cancel moves every live session to CANCELLED, empties
\* the registry and emits authorizationResult(false).
C10_CancelRemovesEverySession ==
  lastOp.op = "cancelAuthorization" =>
    /\ \A c \in lastOp.live :
         \E i \in StateChanges(c) : signals[i].state = "CANCELLED"
    /\ m_sessions = <<>>
    /\ \A c \in Cookies : authenticationState(c) = "IDLE"
    /\ \E i \in DOMAIN signals :
         signals[i].sig = "authorizationResult" /\ ~signals[i].flag

\* C11: once the last operation has reported a terminal state for a cookie's
\* session, it reports no further state for that cookie; in particular no
\* AUTHENTICATION_FAILED follows CANCELLED.
C11_OneTerminalOutcome ==
  \A c \in Cookies :
    \A i \in StateChanges(c), j \in StateChanges(c) :
      ~(i < j /\ signals[i].state \in TerminalStates)

\* C12: a backend callback delivered after the cleanup of its cookie's
\* session has started (inside the cleanup, or once the session is gone)
\* emits no signal and completes no async result.
C12_LateCallbacksIgnored ==
  /\ \A i \in DOMAIN lateCallbacks :
       /\ lateCallbacks[i].last < lateCallbacks[i].first
       /\ lateCallbacks[i].results = {}
  /\ (lastOp.op \in {"request", "completed", "showError"}
        /\ lastOp.cookie \notin lastOp.live)
       => signals = <<>>

\* ------------------------------------------------------------------------
\* Outbound messages of the IPC server
\* ------------------------------------------------------------------------
\* the elements of a sequence
Range(q) == {q[i] : i \in DOMAIN q}

\* the last n elements of a sequence
LastN(q, n) == SubSeq(q, Len(q) - n + 1, Len(q))

\* a message that tells the client an authorization has failed
TellsFailure(m) ==
  \/ m.type = "authorization_error"
  \/ m.type = "authorization_result" /\ ~m.authorized

\* C13: every operation that ends a session without success writes or queues
\* an authorization_result with authorized=false or an authorization_error
C13_FailureReachesClient ==
  [][\A c \in DOMAIN m_sessions \ DOMAIN m_sessions' :
       (\A i \in DOMAIN signals' :
          ~(/\ signals'[i].sig = "authenticationStateChanged"
            /\ signals'[i].cookie = c
            /\ signals'[i].state = "COMPLETED"))
       => \E m \in Range(written') \cup
                   Range(LastN(m_pendingMessages', enqueued' - enqueued)) :
            TellsFailure(m)]_vars

\* the step is IPCServer::onNewConnection
IsNewConnection == attempts' = attempts + 1

\* C14: a connection offered while a client is held is closed at once; the
\* client, connectionVersion, both clocks and the outbound queue stay as they
\* are and nothing is written; a held client is never replaced by another
C14_SingleClient ==
  [][/\ (IsNewConnection /\ m_currentClient # NoObj) =>
          /\ closedSockets' = <<attempts'>>
          /\ written' = <<>>
          /\ UNCHANGED <<m_currentClient, clientState, m_clientConnectionVersion,
                         m_lastHeartbeat, m_sessionStartTime, m_pendingMessages>>
     /\ m_currentClient # NoObj => m_currentClient' \in {m_currentClient, NoObj}]_vars

\* a second connection has been turned away while the first client is held
C14_Witness ==
  /\ lastOp.op = "newConnection"
  /\ ~lastOp.flag
  /\ m_currentClient = 1
  /\ closedSockets = <<2>>

\* the positions of the welcome messages the last operation wrote
Welcomes(w) == {i \in DOMAIN w : w[i].type = "welcome"}

\* C15: connectionVersion is 0 before the first connection, grows by exactly
\* one on every accepted connection and on no other step, and a welcome is
\* written only on acceptance, first, carrying the value just incremented
C15_ConnectionVersion ==
  [][/\ attempts = 0 => m_clientConnectionVersion = 0
     /\ IF IsNewConnection /\ m_currentClient = NoObj
        THEN /\ m_clientConnectionVersion' = m_clientConnectionVersion + 1
             /\ Welcomes(written') = {1}
             /\ written'[1].n = m_clientConnectionVersion'
        ELSE /\ m_clientConnectionVersion' = m_clientConnectionVersion
             /\ Welcomes(written') = {}]_vars

\* a client has reconnected after a disconnect and was welcomed with version 2
C15_Witness ==
  /\ lastOp.op = "newConnection"
  /\ lastOp.flag
  /\ m_clientConnectionVersion = 2
  /\ written # <<>>
  /\ written[1].type = "welcome"
  /\ written[1].n = 2

\* the welcome message of connection version n
WelcomeOf(n) == OutMsg("welcome", "", NoCookie, FALSE, n, <<>>)

\* C16: an accepted connection is written the welcome first, then every
\* message the outbound queue held, oldest first, and leaves the queue empty
C16_WelcomeThenReplay ==
  [][(IsNewConnection /\ m_currentClient = NoObj) =>
       /\ written' = <<WelcomeOf(m_clientConnectionVersion')>> \o m_pendingMessages
       /\ m_pendingMessages' = <<>>]_vars

\* C17: a queueable message that could not be written is never dropped:
\* the queue loses messages only from its head by overflow, and on the next
\* accepted connection all of it is written, once, and nothing of it is kept
C17_QueuedDeliveredOnce ==
  [][/\ \A i \in DOMAIN discarded' : discarded'[i].type \in NeverQueued
     /\ IF IsNewConnection /\ m_currentClient = NoObj
        THEN /\ Tail(written') = m_pendingMessages
             /\ m_pendingMessages' = <<>>
        ELSE /\ SubSeq(evicted' \o m_pendingMessages', 1, Len(m_pendingMessages))
                  = m_pendingMessages
             /\ evicted' # <<>> => Len(m_pendingMessages') = MAX_QUEUED_MESSAGES]_vars

\* the signal has a slot of the server connected to it
HasSlot(s) == s.sig \in ConnectedSignals

\* the messages the server's slots build for the signals `sigs', in order
SlotMessages(sigs) ==
  LET sel == SelectSeq(sigs, HasSlot)
  IN [i \in 1..Len(sel) |-> slotMessage(sel[i])]

\* C18: the outbound queue never holds more than MAX_QUEUED_MESSAGES; a
\* step that produces messages without a ready client appends them and
\* removes exactly as many of the oldest entries as do not fit, so that the
\* queue is the most recent messages in the order they were produced
C18_QueueBounded ==
  [][/\ Len(m_pendingMessages) <= MAX_QUEUED_MESSAGES
     /\ Len(m_pendingMessages') <= MAX_QUEUED_MESSAGES
     /\ ~(IsNewConnection /\ m_currentClient = NoObj) =>
          LET produced == IF m_currentClient # NoObj /\ clientState = "ConnectedState"
                          THEN <<>> ELSE SlotMessages(signals')
              overflow == Len(m_pendingMessages) + Len(produced) - MAX_QUEUED_MESSAGES
          IN /\ evicted' \o m_pendingMessages' = m_pendingMessages \o produced
             /\ Len(evicted') = IF overflow > 0 THEN overflow ELSE 0]_vars

\* a message was queued when the queue was full and the oldest one made room
C18_Witness ==
  /\ Len(m_pendingMessages) = MAX_QUEUED_MESSAGES
  /\ evicted = <<QueuedBefore[1]>>
  /\ enqueued > 0

\* a message that only answers the connection it was produced for
IsDirectResponse(m) == m.type \in {"welcome", "error", "heartbeat_ack"}

\* C19: the outbound queue never holds a welcome, error or heartbeat_ack,
\* and what an accepted connection is replayed contains none either
C19_DirectResponsesNotQueued ==
  /\ \A i \in DOMAIN m_pendingMessages : ~IsDirectResponse(m_pendingMessages[i])
  /\ (lastOp.op = "newConnection" /\ lastOp.flag)
       => \A i \in 2..Len(written) : ~IsDirectResponse(written[i])

\* an error was produced for a client whose socket is closing, and discarded
C19_Witness ==
  /\ lastOp.op = "clientData"
  /\ m_currentClient # NoObj
  /\ clientState = "ClosingState"
  /\ \E i \in DOMAIN discarded : discarded[i].type = "error"

\* ------------------------------------------------------------------------
\* Inbound pipeline of the IPC server
\* ------------------------------------------------------------------------
IsError(m) == m.type = "error"

\* the texts of the errors the last operation answered with
ErrorTexts(w, d) ==
  LET e == SelectSeq(w \o d, IsError)
  IN [i \in 1..Len(e) |-> e[i].error]

\* C20: an inbound message is checked for rate, then session age, then
\* schema, then (if it carries one) its HMAC, and is dispatched only if all
\* pass; the first failing stage alone answers, and a rejected message
\* reaches no handler of the state machine and moves neither clock
C20_PipelineOrder ==
  [][inbound' # <<>> =>
       LET m == inbound'[1]
           rateOK == Len(dropOld(Append(m_messageTimestamps, now), now))
                       <= MAX_MESSAGES_PER_SECOND
           fresh == ~((now - m_sessionStartTime) > SESSION_TIMEOUT_MS)
           valid == validateMessage(m).valid
           hmacOK == "hmac" \notin DOMAIN m \/ verifyMessage(m, now)
           errors == ErrorTexts(written', discarded')
       IN /\ dispatched' # <<>> <=> (rateOK /\ fresh /\ valid /\ hmacOK)
          /\ ~rateOK => errors = << <<"Rate limit exceeded">> >>
          /\ (rateOK /\ ~fresh) => (errors = <<>> /\ closedSockets' = <<m_currentClient>>)
          /\ (rateOK /\ fresh /\ ~valid) =>
               errors = << <<"Invalid message: ">> \o validateMessage(m).error >>
          /\ (rateOK /\ fresh /\ valid /\ ~hmacOK) =>
               errors = << <<"Message authentication failed">> >>
          /\ dispatched' = <<>> =>
               /\ UNCHANGED <<m_lastHeartbeat, m_sessionStartTime, m_sessions,
                              m_currentActionId, m_pendingMessages>>
               /\ signals' = <<>>
               /\ backendCalls' = <<>>]_vars

\* a well-formed message with a forged HMAC was answered with an error and
\* not dispatched
C20_Witness ==
  /\ lastOp.op = "clientData"
  /\ inbound # <<>>
  /\ "hmac" \in DOMAIN inbound[1]
  /\ validateMessage(inbound[1]).valid
  /\ dispatched = <<>>
  /\ ErrorTexts(written, discarded) = << <<"Message authentication failed">> >>

\* the rate limiter admits a message that arrives now
Admitted ==
  Len(dropOld(Append(m_messageTimestamps, now), now)) <= MAX_MESSAGES_PER_SECOND

\* the client's session has not timed out
SessionFresh == ~((now - m_sessionStartTime) > SESSION_TIMEOUT_MS)

\* C21: a heartbeat from the connected client, within the rate limit and the
\* session's life, with or without a timestamp, sets both clocks to the
\* current time and is answered with exactly one heartbeat_ack carrying it
C21_HeartbeatAcknowledged ==
  [][(/\ inbound' # <<>>
      /\ inbound'[1].type = "heartbeat"
      /\ "hmac" \notin DOMAIN inbound'[1]
      /\ Admitted /\ SessionFresh
      /\ m_currentClient # NoObj /\ clientState = "ConnectedState")
     => /\ m_lastHeartbeat' = now
        /\ m_sessionStartTime' = now
        /\ written' = <<OutMsg("heartbeat_ack", "", NoCookie, FALSE, now, <<>>)>>]_vars

\* C22: a message of any of the four inbound types that carries a fresh
\* timestamp and the matching hmac, a signed cancel_authorization included,
\* passes validation and verification and reaches the handler of its type
C22_SignedDispatched ==
  [][(/\ inbound' # <<>>
      /\ inbound'[1].type \in {"check_authorization", "cancel_authorization",
                                "submit_authentication", "heartbeat"}
      /\ "hmac" \in DOMAIN inbound'[1]
      /\ verifyMessage(inbound'[1], now)
      /\ Admitted /\ SessionFresh)
     => /\ dispatched' = <<inbound'[1].type>>
        /\ ErrorTexts(written', discarded') = <<>>]_vars

\* the distance of two clock readings
Skew(a, b) == IF a >= b THEN a - b ELSE b - a

\* C23: a message that signMessage returned verifies when it is checked
\* within 30,000 ms of its signing; verification fails when the message was
\* changed after signing, when hmac or timestamp is missing, and when its
\* timestamp is more than 30,000 ms from the current time, before or after
C23_SignVerifyRoundTrip ==
  [][verdicts' # <<>> =>
       /\ (signedCopy = <<subject>> /\ Skew(now, subject.timestamp) <= MAX_TIME_SKEW_MS)
            => verdicts' = <<TRUE>>
       /\ (signedCopy # <<>> /\ signedCopy # <<subject>>) => verdicts' = <<FALSE>>
       /\ ({"hmac", "timestamp"} \ DOMAIN subject # {}) => verdicts' = <<FALSE>>
       /\ ("timestamp" \in DOMAIN subject
           /\ Skew(now, subject.timestamp) > MAX_TIME_SKEW_MS) => verdicts' = <<FALSE>>]_vars

\* C24: the HMAC check is applied to exactly the messages that carry an
\* hmac field: such a message whose digest was not made with the process's
\* key over the rest of the message, that has no timestamp, or whose
\* timestamp is more than 30,000 ms from the current time, is answered with
\* an error and reaches no handler; a valid message without an hmac field
\* reaches its handler and no authentication error is raised for it
C24_HmacExactlyWhenPresent ==
  [][(inbound' # <<>> /\ Admitted /\ SessionFresh) =>
       LET m == inbound'[1]
           errors == ErrorTexts(written', discarded')
       IN IF "hmac" \in DOMAIN m
          THEN (\/ "timestamp" \notin DOMAIN m
                \/ m.hmac # [key |-> "s_hmacKey", data |-> RemoveKey(m, "hmac")]
                \/ now - m.timestamp > MAX_TIME_SKEW_MS
                \/ m.timestamp - now > MAX_TIME_SKEW_MS)
               => (dispatched' = <<>> /\ Len(errors) = 1)
          ELSE validateMessage(m).valid
               => (dispatched' = <<m.type>>
                   /\ <<"Message authentication failed">> \notin Range(errors))]_vars

\* a correctly signed message with a stale timestamp was refused
C24_Witness ==
  /\ inbound # <<>>
  /\ "hmac" \in DOMAIN inbound[1] /\ "timestamp" \in DOMAIN inbound[1]
  /\ inbound[1].hmac = [key |-> "s_hmacKey", data |-> RemoveKey(inbound[1], "hmac")]
  /\ now - inbound[1].timestamp > MAX_TIME_SKEW_MS
  /\ dispatched = <<>>
  /\ ErrorTexts(written, discarded) = << <<"Message authentication failed">> >>

\* C25: a check_authorization without action_id that passes the rate and
\* session stages is answered with the one error "Invalid message: Missing
\* required field: action_id", reaches no handler, and leaves the client's
\* connection as it was
C25_MissingActionId ==
  [][(/\ inbound' # <<>>
      /\ inbound'[1].type = "check_authorization"
      /\ "action_id" \notin DOMAIN inbound'[1]
      /\ Admitted /\ SessionFresh)
     => /\ ErrorTexts(written', discarded')
             = << <<"Invalid message: ", "Missing required field: ", "action_id">> >>
        /\ clientState = "ConnectedState" => Len(written') = 1
        /\ dispatched' = <<>> /\ signals' = <<>>
        /\ closedSockets' = <<>>
        /\ UNCHANGED <<m_currentClient, clientState, heartbeatTimer, sessionTimeoutTimer,
                       m_sessions, m_currentActionId>>]_vars

\* the error has reached a client that is still connected
C25_Witness ==
  /\ inbound = <<[type |-> "check_authorization"]>>
  /\ written = <<OutMsg("error", "", NoCookie, FALSE, 0,
                        <<"Invalid message: ", "Missing required field: ", "action_id">>)>>
  /\ m_currentClient # NoObj /\ clientState = "ConnectedState"

\* C26: what the connected client sends and the server cannot accept as a
\* message (bytes that are no JSON document, a message the validator
\* refuses, a message over the rate limit) is answered with one error and
\* the connection stays as it was; the server closes the connection on
\* inbound data only when the session has timed out
C26_ProtocolErrorsAnswered ==
  [][(lastOp'.op = "clientData" /\ clientState = "ConnectedState") =>
       LET parsed == inbound' # <<>>
           refused == \/ ~parsed
                      \/ ~Admitted
                      \/ SessionFresh /\ ~validateMessage(inbound'[1]).valid
       IN /\ refused => /\ Len(ErrorTexts(written', discarded')) = 1
                        /\ closedSockets' = <<>>
                        /\ UNCHANGED <<m_currentClient, clientState>>
          /\ closedSockets' # <<>> => (parsed /\ Admitted /\ ~SessionFresh)]_vars

\* C27: every complete line the client sends is handed to the message
\* handler once and in the order of arrival, however the lines fall into
\* reads: the lines of one read are handled in their order, and a line whose
\* first part came with the read before is handled when its last part comes
C27_OneLineOneMessage ==
  [][(lastOp'.op = "clientData" /\ SessionFresh) =>
       LET data == lastOp'.data
       IN /\ (\A i \in DOMAIN data : data[i].piece = "line")
               => inbound' = [i \in DOMAIN data |-> data[i].msg]
          /\ (/\ lastOp.op = "clientData"
              /\ lastOp.data[Len(lastOp.data)].piece = "head"
              /\ data[1].piece = "tail"
              /\ data[1].msg = lastOp.data[Len(lastOp.data)].msg)
               => inbound' = <<data[1].msg>>]_vars

\* C28: the rate limiter keeps the timestamps of the last 1000 ms, the
\* current message's included, and admits the message exactly when they are
\* no more than the ceiling; a message over the ceiling is answered with the
\* rate-limit error alone, reaches no handler and leaves the connection open
C28_RateLimitAdmission ==
  [][inbound' # <<>> =>
       LET Recent(t) == ~(now - t > RATE_LIMIT_WINDOW_MS)
           window == SelectSeq(Append(m_messageTimestamps, now), Recent)
           errors == ErrorTexts(written', discarded')
       IN /\ m_messageTimestamps' = window
          /\ <<"Rate limit exceeded">> \in Range(errors)
               <=> Len(window) > MAX_MESSAGES_PER_SECOND
          /\ Len(window) > MAX_MESSAGES_PER_SECOND
               => /\ errors = << <<"Rate limit exceeded">> >>
                  /\ dispatched' = <<>> /\ signals' = <<>>
                  /\ closedSockets' = <<>>
                  /\ UNCHANGED <<m_currentClient, clientState, heartbeatTimer,
                                 sessionTimeoutTimer>>
          /\ (/\ Len(window) <= MAX_MESSAGES_PER_SECOND
              /\ SessionFresh
              /\ validateMessage(inbound'[1]).valid
              /\ "hmac" \notin DOMAIN inbound'[1])
               => dispatched' = <<inbound'[1].type>>]_vars

\* a message over the ceiling was refused, and the client is still connected
C28_Witness ==
  /\ inbound # <<>>
  /\ Len(m_messageTimestamps) = MAX_MESSAGES_PER_SECOND + 1
  /\ written = <<OutMsg("error", "", NoCookie, FALSE, 0, <<"Rate limit exceeded">>)>>
  /\ dispatched = <<>>
  /\ m_currentClient # NoObj /\ clientState = "ConnectedState"

C31_SessionTimeoutExplained ==
  [][/\ (/\ lastOp'.op \in {"sessionTimeout", "clientData"}
         /\ closedSockets' # <<>>
         /\ ~SessionFresh
         /\ clientState = "ConnectedState")
          => /\ written' # <<>>
             /\ written'[Len(written')]
                  = OutMsg("error", "", NoCookie, FALSE, 0,
                           <<"Session timeout - please reconnect">>)
     /\ (lastOp'.op = "sessionTimeout" /\ SessionFresh)
          => /\ written' = <<>> /\ closedSockets' = <<>>
             /\ UNCHANGED <<m_currentClient, clientState, m_sessionStartTime,
                            m_lastHeartbeat, heartbeatTimer, sessionTimeoutTimer,
                            m_pendingMessages, m_sessions>>]_vars

\* C32: a backend prompt for a live session whose reader flag is set and
\* that has not tried the security key puts the session in TRYING_FIDO with
\* method FIDO, marks the attempt, submits one empty response, arms the
\* session's FIDO timer and surfaces no password prompt; any other prompt
\* for a live session puts it in WAITING_FOR_PASSWORD with method PASSWORD,
\* submits nothing and surfaces exactly one password prompt for the cookie
C32_PromptBranches ==
  [][(/\ lastOp'.op = "request"
      /\ lastOp'.cookie \in DOMAIN m_sessions
      /\ m_sessions[lastOp'.cookie].session # NoObj)
     => LET c == lastOp'.cookie
            prompts == {i \in DOMAIN signals' : signals'[i].sig = "showPasswordRequest"}
        IN /\ c \in DOMAIN m_sessions'
           /\ IF m_nfcReaderPresent /\ ~m_sessions[c].nfcAttempted
              THEN /\ m_sessions'[c].state = "TRYING_FIDO"
                   /\ m_sessions'[c].method = "FIDO"
                   /\ m_sessions'[c].nfcAttempted
                   /\ backendCalls' = <<[pam |-> m_sessions[c].session, response |-> ""]>>
                   /\ m_sessions'[c].fidoTimeoutTimer # NoObj
                   /\ [id |-> m_sessions'[c].fidoTimeoutTimer, cookie |-> c] \in fidoTimers'
                   /\ prompts = {}
              ELSE /\ m_sessions'[c].state = "WAITING_FOR_PASSWORD"
                   /\ m_sessions'[c].method = "PASSWORD"
                   /\ backendCalls' = <<>>
                   /\ Cardinality(prompts) = 1
                   /\ \A i \in prompts : signals'[i].cookie = c]_vars

\* a prompt has started the security-key attempt of a session
C32_Witness ==
  /\ lastOp.op = "request"
  /\ lastOp.cookie \in DOMAIN m_sessions
  /\ m_sessions[lastOp.cookie].state = "TRYING_FIDO"
  /\ backendCalls # <<>>
  /\ \E t \in fidoTimers : t.cookie = lastOp.cookie

\* C33: a session, from the creation of its entry to the entry's removal
\* or replacement, enters TRYING_FIDO at most once: it enters only while
\* its attempt mark is unset and sets the mark as it enters, and a set mark
\* is never unset
C33_FidoAttemptedOnce ==
  [][\A c \in DOMAIN m_sessions' :
       LET same == c \in DOMAIN m_sessions /\ m_sessions[c].id = m_sessions'[c].id
           enters == /\ m_sessions'[c].state = "TRYING_FIDO"
                     /\ ~(same /\ m_sessions[c].state = "TRYING_FIDO")
       IN /\ (same /\ m_sessions[c].nfcAttempted)
               => (m_sessions'[c].nfcAttempted /\ ~enters)
          /\ enters => (same /\ m_sessions'[c].nfcAttempted)]_vars

\* with the reader present, a prompt for a session that had tried the key
\* did not start a second attempt
C33_Witness ==
  /\ lastOp.op = "request"
  /\ m_nfcReaderPresent
  /\ lastOp.cookie \in DOMAIN m_sessions
  /\ m_sessions[lastOp.cookie].nfcAttempted
  /\ m_sessions[lastOp.cookie].state = "WAITING_FOR_PASSWORD"
  /\ lastOp.pre # "TRYING_FIDO"

\* C34: every armed FIDO timer is the one timer of a live session with its
\* cookie, so a session has at most one and a removed session has none; a
\* timer is armed only on the step on which its session enters TRYING_FIDO;
\* and the session whose backend conversation has completed has no timer
C34_FidoTimerOwnership ==
  [][/\ \A t \in fidoTimers' :
          /\ t.cookie \in DOMAIN m_sessions'
          /\ m_sessions'[t.cookie].fidoTimeoutTimer = t.id
          /\ m_sessions'[t.cookie].id = t.id
     /\ \A t \in fidoTimers' \ fidoTimers :
          /\ t.cookie \in DOMAIN m_sessions /\ t.cookie \in DOMAIN m_sessions'
          /\ m_sessions[t.cookie].state # "TRYING_FIDO"
          /\ m_sessions'[t.cookie].state = "TRYING_FIDO"
     /\ lastOp'.op = "completed" => \A t \in fidoTimers' : t.id # lastOp'.pam]_vars

\* C35: an async result is completed without an error exactly on the step
\* on which the backend reports completed(success) for its session, which
\* goes to COMPLETED; on every other step that completes a result (failed
\* completion, backend error, cancellation, cleanup) the result carries an
\* error; and the result of a session that succeeded carries none afterwards
C35_ResultMatchesOutcome ==
  [][\A r \in DOMAIN asyncResults' :
       LET before == IF r \in DOMAIN asyncResults THEN asyncResults[r]
                     ELSE [completed |-> 0, error |-> ""]
           owners == {c \in DOMAIN m_sessions : m_sessions[c].result = r}
       IN /\ asyncResults'[r] # before
               => /\ asyncResults'[r].completed > 0
                  /\ asyncResults'[r].error = ""
                       <=> (lastOp'.op = "completed" /\ lastOp'.flag)
          /\ (lastOp'.op = "completed" /\ lastOp'.flag /\ lastOp'.cookie \in owners)
               => /\ asyncResults'[r] = [completed |-> 1, error |-> ""]
                  /\ \E i \in DOMAIN signals' :
                       /\ signals'[i].sig = "authenticationStateChanged"
                       /\ signals'[i].cookie = lastOp'.cookie
                       /\ signals'[i].state = "COMPLETED"]_vars

\* C36: a submission moves a session to AUTHENTICATING with method PASSWORD and
\* reaches the backend only when the response is non-empty and the session was
\* in WAITING_FOR_PASSWORD or TRYING_FIDO; no session enters AUTHENTICATING
\* from INITIATED, FIDO_FAILED, AUTHENTICATING or a terminal state.
C36_SubmitOnlyWhenPrompted ==
  [][lastOp'.op = "submit" =>
       LET c == lastOp'.cookie
           entered == /\ c \in DOMAIN m_sessions /\ c \in DOMAIN m_sessions'
                      /\ m_sessions[c].state # "AUTHENTICATING"
                      /\ m_sessions'[c].state = "AUTHENTICATING"
       IN /\ (entered \/ backendCalls' # <<>>)
               => /\ lastOp'.response # ""
                  /\ m_sessions[c].state \in {"WAITING_FOR_PASSWORD", "TRYING_FIDO"}
          /\ entered => m_sessions'[c].method = "PASSWORD"]_vars

\* C37: no pending async result is lost: a result that is not yet completed
\* belongs to a session of the registry, and when initiateAuthentication is
\* called with a cookie that has a live session, the earlier session's backend
\* conversation is ended, its FIDO timer is gone and its pending result is
\* completed, so that every result handed in is eventually completed.
C37_ReinitiationReleases ==
  [][/\ \A r \in DOMAIN asyncResults' :
          asyncResults'[r].completed = 0
            => \E c \in DOMAIN m_sessions' : m_sessions'[c].result = r
     /\ (lastOp'.op = "initiateAuthentication" /\ lastOp'.cookie \in DOMAIN m_sessions)
          => LET old == m_sessions[lastOp'.cookie]
             IN /\ old.session # NoObj => pamSessions'[old.session].done
                /\ \A t \in fidoTimers' : t.id # old.id
                /\ old.result # NoObj => asyncResults'[old.result].completed > 0]_vars

\* C38: a failed security-key attempt is announced at most once per session:
\* however the FIDO timer and the backend's prompts interleave, at most one
\* authenticationMethodFailed for method FIDO is emitted for the session's cookie.
C38_FidoFailureAnnouncedOnce ==
  \A i \in DOMAIN fidoFailures : fidoFailures[i] <= 1

\* C39: a message the rate limiter refuses is recorded in the window like an
\* admitted one, and only an inbound message changes the window: a disconnect
\* or a new connection leaves it as it is, so the next client starts with the
\* timestamps of the previous one; a message is admitted only when fewer
\* than the ceiling of recorded messages lie within the last 1000 ms
C39_WindowSurvives ==
  [][/\ inbound' = <<>> => m_messageTimestamps' = m_messageTimestamps
     /\ (/\ inbound' # <<>>
         /\ <<"Rate limit exceeded">> \in Range(ErrorTexts(written', discarded')))
          => /\ Len(m_messageTimestamps') > MAX_MESSAGES_PER_SECOND
             /\ m_messageTimestamps'[Len(m_messageTimestamps')] = now
     /\ (inbound' # <<>> /\ dispatched' # <<>>)
          => Cardinality({k \in DOMAIN m_messageTimestamps :
                            ~(now - m_messageTimestamps[k] > RATE_LIMIT_WINDOW_MS)})
               < MAX_MESSAGES_PER_SECOND]_vars

\* a second client has been accepted and finds the window of the first one,
\* the timestamp of a refused message included
C39_Witness ==
  /\ lastOp.op = "newConnection"
  /\ m_currentClient = MaxConnections /\ clientState = "ConnectedState"
  /\ Len(m_messageTimestamps) = MAX_MESSAGES_PER_SECOND + 1

\* C40: a step on which the client goes away, by its own disconnect, by the
\* heartbeat monitor or by the session timeout, changes no authentication
\* session, FIDO timer, backend conversation or pending result and leaves the
\* outbound queue as it is; while no client is held, every message the
\* server's slots build for the sessions' signals is put at the end of the
\* queue, in order, and none is written or dropped
C40_DisconnectKeepsSessions ==
  [][/\ (/\ m_currentClient # NoObj
         /\ \/ m_currentClient' = NoObj
            \/ clientState = "ConnectedState" /\ clientState' = "ClosingState")
          => UNCHANGED <<m_sessions, fidoTimers, asyncResults, pamSessions,
                         m_pendingMessages>>
     /\ (m_currentClient = NoObj /\ ~IsNewConnection)
          => LET produced == SlotMessages(signals')
             IN /\ written' = <<>> /\ discarded' = <<>>
                /\ Len(produced) <= Len(m_pendingMessages')
                /\ LastN(m_pendingMessages', Len(produced)) = produced]_vars

\* a client was accepted and has gone; the session it left behind is still
\* in the registry, got a prompt from the backend, and the password request
\* is the newest entry of the queue
C40_Witness ==
  /\ m_currentClient = NoObj /\ m_clientConnectionVersion > 0
  /\ lastOp.op = "request"
  /\ \E c \in DOMAIN m_sessions :
       /\ m_sessions[c].state = "WAITING_FOR_PASSWORD"
       /\ m_pendingMessages # <<>>
       /\ m_pendingMessages[Len(m_pendingMessages)]
            = OutMsg("password_request", m_sessions[c].actionId, c, FALSE, 0, <<>>)

====
